---- MODULE Spec2Model ----
(***************************************************************************)
(* Invitation & notification dispatch engine of GeoCachingEngine.          *)
(*                                                                         *)
(* The store (PostgreSQL through Prisma) is the state; every HTTP handler  *)
(* and the retention cleanup script is a process whose steps are the       *)
(* awaited store or transport calls of its code.  Time is counted in hours.*)
(***************************************************************************)
EXTENDS Integers, FiniteSets, Sequences, TLC

\* ---------------------------------------------------------------- bounds
MaxInFlight == 2        \* dispatch requests executing at the same time
MaxLogs == 3            \* EmailLog rows ever inserted
MaxInvs == 2            \* Invitation rows ever inserted
MaxTicks == 1           \* number of clock advances
MaxCeil == 1            \* largest configured ceiling
MaxTokens == 2          \* distinct values crypto.randomBytes(24) returns
MaxToggles == 2         \* deactivations counted
MaxCount == 50          \* EmailLog rows of one operator the quota check meets
MaxLen == 3             \* pieces of an operator's message template

\* ------------------------------------------------------ program constants
HourMs == 1             \* 60 * 60 * 1000 ms, in hours
DayMs == 24             \* 24 * 60 * 60 * 1000 ms, in hours
DefaultPerHour == 50    \* MAX_EMAILS_PER_HOUR_PER_ADMIN fallback
DefaultPerDay == 200    \* MAX_EMAILS_PER_DAY_PER_ADMIN fallback
PageSize == 100         \* take: 100 of the email-logs listing

Events == {"e1", "e2"}
Admins == {"a1", "a2"}
Procs == 1..MaxInFlight
Null == "null"            \* a null event reference
NoInv == 0                \* a null invitation reference
NoToken == 0              \* no token
InvIds == 1..MaxInvs
Tokens == 1..MaxTokens
NoDate == 0 - 1           \* a null timestamp
NoCeil == 0 - 1           \* a null ceiling column
NoAdmin == "undefined"
NoMsg == <<"none", 0>>    \* no message
NoSettings == [absent |-> TRUE]
Recipient == "player@example.org"
TickSteps == {HourMs, DayMs}
RetentionChoices == {0, 1}

VARIABLES
    now,          \* Date.now(), in hours
    nticks,       \* clock advances so far
    settings,     \* SystemSetting row id = 1
    events,       \* Event rows: id -> [endsAt]
    invitations,  \* Invitation rows
    logs,         \* EmailLog rows
    nextInv,      \* next Invitation id / token
    nextLog,      \* next EmailLog id
    req,          \* POST /api/admin/events/:id/invitations requests in flight
    cleanup,      \* the retention cleanup script
    toggle,       \* PUT /api/admin/events/:eventId/invitations/:invitationId
    join,         \* the answer of GET /join/:token being sent
    mail,         \* the message sendInvitationEmail renders
    audit,        \* the answer of GET /api/admin/events/:id/email-logs being sent
    peak          \* per operator, the most EMAIL dispatches in flight at once

vars == <<now, nticks, settings, events, invitations, logs, nextInv, nextLog,
          req, cleanup, toggle, join, mail, audit, peak>>

\* ------------------------------------------------------------- email.ts

\* isEmailSendingEnabled: all five SMTP fields are set; s.smtp stands for
\* their conjunction.
isEmailSendingEnabled(s) ==
    IF s = NoSettings THEN FALSE ELSE s.smtp

\* settings?.column ?? Number(process.env.NAME || default), with the
\* environment variable unset.
getRateLimitConfig(s) ==
    [perHour |-> IF s = NoSettings THEN DefaultPerHour
                 ELSE IF s.perHour = NoCeil THEN DefaultPerHour
                 ELSE s.perHour,
     perDay  |-> IF s = NoSettings THEN DefaultPerDay
                 ELSE IF s.perDay = NoCeil THEN DefaultPerDay
                 ELSE s.perDay]

\* countEmails without the NOT RATE_LIMITED filter.
countEmails_all(adminId, since) ==
    Cardinality({l \in logs : /\ l.adminId = adminId
                              /\ l.createdAt >= since})

\* countEmails without the adminId filter.
countEmails_anyAdmin(adminId, since) ==
    Cardinality({l \in logs : /\ l.createdAt >= since
                              /\ l.status # "RATE_LIMITED"})

countEmails(adminId, since) ==
    Cardinality({l \in logs : /\ l.adminId = adminId
                              /\ l.createdAt >= since
                              /\ l.status # "RATE_LIMITED"})

\* queries is the number of countEmails calls made.
Allowed == [allowed |-> TRUE, window |-> "none", limit |-> 0, queries |-> 0]

\* checkRateLimit with the daily window evaluated first.
checkRateLimit_dayFirst(adminId, s) ==
    IF adminId = NoAdmin THEN Allowed
    ELSE LET limits == getRateLimitConfig(s)
             perHour == countEmails(adminId, now - HourMs)
             perDay == countEmails(adminId, now - DayMs)
         IN  IF limits.perDay > 0 /\ perDay >= limits.perDay
             THEN [allowed |-> FALSE, window |-> "day", limit |-> limits.perDay,
                   queries |-> 1]
             ELSE IF limits.perHour > 0 /\ perHour >= limits.perHour
             THEN [allowed |-> FALSE, window |-> "hour", limit |-> limits.perHour,
                   queries |-> 2]
             ELSE [Allowed EXCEPT !.queries = 2]

\* checkRateLimit with the comparisons off by one.
checkRateLimit_strict(adminId, s) ==
    IF adminId = NoAdmin THEN Allowed
    ELSE LET limits == getRateLimitConfig(s)
             perHour == countEmails(adminId, now - HourMs)
             perDay == countEmails(adminId, now - DayMs)
         IN  IF limits.perHour > 0 /\ perHour > limits.perHour
             THEN [allowed |-> FALSE, window |-> "hour", limit |-> limits.perHour,
                   queries |-> 1]
             ELSE IF limits.perDay > 0 /\ perDay > limits.perDay
             THEN [allowed |-> FALSE, window |-> "day", limit |-> limits.perDay,
                   queries |-> 2]
             ELSE [Allowed EXCEPT !.queries = 2]

\* The message `Limit erreicht (${n} pro Stunde|Tag).` is the pair
\* (window, limit).
checkRateLimit(adminId, s) ==
    IF adminId = NoAdmin THEN Allowed
    ELSE LET limits == getRateLimitConfig(s)
             perHour == countEmails(adminId, now - HourMs)
             perDay == countEmails(adminId, now - DayMs)
         IN  IF limits.perHour > 0 /\ perHour >= limits.perHour
             THEN [allowed |-> FALSE, window |-> "hour", limit |-> limits.perHour,
                   queries |-> 1]
             ELSE IF limits.perDay > 0 /\ perDay >= limits.perDay
             THEN [allowed |-> FALSE, window |-> "day", limit |-> limits.perDay,
                   queries |-> 2]
             ELSE [Allowed EXCEPT !.queries = 2]

precheckRateLimit(adminId) == checkRateLimit(adminId, settings)

\* LogInsertable without the foreign keys of EmailLog.
LogInsertable_noFk(eventId, invitationId) == TRUE

\* A row can be inserted only if the rows it references exist.
LogInsertable(eventId, invitationId) ==
    /\ eventId = Null \/ eventId \in DOMAIN events
    /\ invitationId = NoInv \/ \E i \in invitations : i.id = invitationId

NewLog(status, errorMessage, eventId, invitationId, adminId) ==
    [id |-> nextLog, recipient |-> Recipient, status |-> status,
     errorMessage |-> errorMessage, eventId |-> eventId,
     invitationId |-> invitationId, adminId |-> adminId, createdAt |-> now]


\* logEmail: the insert, with its failure caught and only printed.
logEmail(status, errorMessage, eventId, invitationId, adminId) ==
    IF LogInsertable(eventId, invitationId)
    THEN /\ logs' = logs \cup {NewLog(status, errorMessage, eventId, invitationId, adminId)}
         /\ nextLog' = nextLog + 1
    ELSE UNCHANGED <<logs, nextLog>>

\* The caller of sendInvitationEmail passes skipRateCheck: true.
skipRateCheck == TRUE

\* ------------------------------------------------- email.ts, the message

\* A string is the sequence of its pieces: a text, or a placeholder {{v}}
\* whose key v is padded with blanks or not.
Text(v) == [t |-> "text", v |-> v, pad |-> FALSE]
Key(v, pad) == [t |-> "key", v |-> v, pad |-> pad]

Link == "http://localhost:5173/join/token"
Undefined == "undefined"
Descriptions == {"A hunt", Null, Undefined}
TemplateKeys == {"inviteLink", "eventName", "eventDescription", "name",
                 "constructor"}
Pieces == {Text("Hi "), Text(Link)} \cup
          {Key(k, pad) : k \in TemplateKeys, pad \in BOOLEAN}
Templates == UNION {[1..n -> Pieces] : n \in 0..MaxLen}

DEFAULT_BODY ==
    <<Text("Du wurdest zu "), Key("eventName", FALSE),
      Text(" eingeladen. Eventstart: "), Key("eventStart", FALSE),
      Text(" Eventende: "), Key("eventEnd", FALSE),
      Text(" Einladungslink: "), Key("inviteLink", FALSE)>>

\* The context of sendInvitationEmail (lines 155-161).
Context(description) ==
    [eventName |-> "Hunt", eventDescription |-> description,
     eventStart |-> "start", eventEnd |-> "end", inviteLink |-> Link]

\* context[key] of an object literal: its own members, then the members it
\* inherits from Object.prototype, else undefined.
ObjectPrototypeKeys == {"constructor"}
Lookup(context, key) ==
    IF key \in DOMAIN context THEN context[key]
    ELSE IF key \in ObjectPrototypeKeys
    THEN "function Object() { [native code] }"
    ELSE Undefined

\* renderTemplate: each {{key}} is replaced by context[key.trim()] ?? ''.
renderTemplate(template, context) ==
    [i \in 1..Len(template) |->
        IF template[i].t = "key"
        THEN LET value == Lookup(context, template[i].v)
             IN  Text(IF value \in {Null, Undefined} THEN "" ELSE value)
        ELSE template[i]]

\* body.includes('{{inviteLink}}')
HasPlaceholder(body) ==
    \E i \in 1..Len(body) : body[i] = Key("inviteLink", FALSE)

\* body.includes(link)
HasLink(body, link) == \E i \in 1..Len(body) : body[i] = Text(link)

\* ensureInviteLinkPlaceholder that appends whatever the body holds.
ensureInviteLinkPlaceholder_always(body) ==
    body \o <<Text(" Einladungslink: "), Key("inviteLink", FALSE)>>

ensureInviteLinkPlaceholder(body) ==
    IF HasPlaceholder(body) THEN body
    ELSE body \o <<Text(" Einladungslink: "), Key("inviteLink", FALSE)>>

\* body.replace('{{inviteLink}}', link) replaces the first occurrence.
ensureInviteLink(body, link) ==
    IF HasLink(body, link) THEN body
    ELSE IF HasPlaceholder(body)
    THEN LET first == CHOOSE i \in 1..Len(body) :
                        /\ body[i] = Key("inviteLink", FALSE)
                        /\ \A j \in 1..(i - 1) : body[j] # body[i]
         IN  [body EXCEPT ![first] = Text(link)]
    ELSE body \o <<Text(" "), Text(link)>>

\* No message being rendered.
MailIdle ==
    [pc |-> "idle", template |-> <<>>, description |-> Undefined,
     bodyTemplate |-> <<>>, body |-> <<>>, linked |-> <<>>]

\* Lines 150-164 of sendInvitationEmail: the body template of the event or
\* the default, the placeholder helper, the rendering.
RenderMail ==
    /\ mail.pc = "template"
    /\ LET bodyTemplate == ensureInviteLinkPlaceholder(
               IF mail.template = <<>> THEN DEFAULT_BODY ELSE mail.template)
       IN mail' = [mail EXCEPT
             !.pc = "rendered",
             !.bodyTemplate = bodyTemplate,
             !.body = renderTemplate(bodyTemplate, Context(mail.description))]
    /\ UNCHANGED <<now, nticks, settings, events, invitations, logs, nextInv,
                   nextLog, req, cleanup, toggle, join, audit, peak>>

\* The exported helper ensureInviteLink applied to the template and the
\* link.
EnsureInviteLinkCall ==
    /\ mail.pc = "rendered"
    /\ mail' = [mail EXCEPT !.pc = "linked",
                            !.linked = ensureInviteLink(mail.template, Link)]
    /\ UNCHANGED <<now, nticks, settings, events, invitations, logs, nextInv,
                   nextLog, req, cleanup, toggle, join, audit, peak>>

\* ------------------------------------------------------------- index.ts

Idle ==
    [pc |-> "idle", adminId |-> NoAdmin, eventId |-> Null, method |-> "LINK",
     email |-> Null, invId |-> NoInv, token |-> NoToken, pending |-> "none",
     message |-> NoMsg, result |-> "none",
     wrote |-> {}, sends |-> 0, checks |-> 0]

InFlight == {p \in Procs : req[p].pc \notin {"idle", "done"}}

\* The EMAIL dispatches of operator a in flight among the requests r.
EmailInFlight(r, a) ==
    Cardinality({q \in Procs : /\ r[q].pc \notin {"idle", "done"}
                               /\ r[q].method = "EMAIL"
                               /\ r[q].adminId = a})

\* The last store call of a handler and its response are one synchronous
\* continuation: nothing runs between them.
Responded ==
    /\ \A p \in Procs : req[p].pc # "done"
    /\ toggle.pc # "done"
    /\ join.outcome = "none"
    /\ audit.status = 0

Finish(r, result, message) ==
    [r EXCEPT !.pc = "done", !.result = result, !.message = message]

\* StartDispatch with the capability check applied to every delivery method
\* and the recipient check dropped.
StartDispatch_gateAll(p, adminId, eventId, method, email) ==
    /\ req[p].pc = "idle"
    /\ \A q \in Procs : q < p => req[q].pc # "idle"
    /\ Responded
    /\ nextLog + Cardinality(InFlight) <= MaxLogs
    /\ nextInv + Cardinality(InFlight) <= MaxInvs
    /\ LET r == [Idle EXCEPT !.adminId = adminId, !.eventId = eventId,
                             !.method = method, !.email = email]
       IN req' = [req EXCEPT ![p] =
            IF eventId \notin DOMAIN events
            THEN Finish(r, "NotFound", NoMsg)
            ELSE IF ~isEmailSendingEnabled(settings)
            THEN Finish(r, "Disabled", NoMsg)
            ELSE IF method = "EMAIL" /\ adminId # NoAdmin
            THEN [r EXCEPT !.pc = "precheck"]
            ELSE [r EXCEPT !.pc = "create"]]
    /\ peak' = [peak EXCEPT ![adminId] =
                  IF EmailInFlight(req', adminId) > @
                  THEN EmailInFlight(req', adminId) ELSE @]
    /\ UNCHANGED <<now, nticks, settings, events, invitations, logs, nextInv,
                   nextLog, cleanup, toggle, join, mail, audit>>

\* Lines 676-689: event lookup, validation, capability check.
StartDispatch(p, adminId, eventId, method, email) ==
    /\ req[p].pc = "idle"
    /\ \A q \in Procs : q < p => req[q].pc # "idle"
    /\ Responded
    /\ nextLog + Cardinality(InFlight) <= MaxLogs
    /\ nextInv + Cardinality(InFlight) <= MaxInvs
    /\ LET r == [Idle EXCEPT !.adminId = adminId, !.eventId = eventId,
                             !.method = method, !.email = email]
       IN req' = [req EXCEPT ![p] =
            IF eventId \notin DOMAIN events
            THEN Finish(r, "NotFound", NoMsg)
            ELSE IF method = "EMAIL" /\ email = Null
            THEN Finish(r, "InvalidRequest", NoMsg)
            ELSE IF method = "EMAIL" /\ ~isEmailSendingEnabled(settings)
            THEN Finish(r, "Disabled", NoMsg)
            ELSE IF method = "EMAIL" /\ adminId # NoAdmin
            THEN [r EXCEPT !.pc = "precheck"]
            ELSE [r EXCEPT !.pc = "create"]]
    /\ peak' = [peak EXCEPT ![adminId] =
                  IF EmailInFlight(req', adminId) > @
                  THEN EmailInFlight(req', adminId) ELSE @]
    /\ UNCHANGED <<now, nticks, settings, events, invitations, logs, nextInv,
                   nextLog, cleanup, toggle, join, mail, audit>>

\* PreQuotaGate that lets every dispatch pass.
PreQuotaGate_open(p) ==
    /\ req[p].pc = "precheck"
    /\ Responded
    /\ req' = [req EXCEPT ![p] = [@ EXCEPT !.pc = "create", !.checks = @ + 1]]
    /\ UNCHANGED <<now, nticks, settings, events, invitations, logs, nextInv,
                   nextLog, cleanup, toggle, join, mail, audit, peak>>

\* Lines 691-692: precheckRateLimit.
PreQuotaGate(p) ==
    /\ req[p].pc = "precheck"
    /\ Responded
    /\ LET r == req[p]
           rate == precheckRateLimit(r.adminId)
           seen == [r EXCEPT !.checks = @ + 1]
       IN req' = [req EXCEPT ![p] =
            IF ~rate.allowed
            THEN [seen EXCEPT !.pc = "gatelog", !.pending = "RATE_LIMITED",
                              !.message = <<rate.window, rate.limit>>]
            ELSE [seen EXCEPT !.pc = "create"]]
    /\ UNCHANGED <<now, nticks, settings, events, invitations, logs, nextInv,
                   nextLog, cleanup, toggle, join, mail, audit, peak>>

\* Lines 693-703: the RATE_LIMITED row of the gate, then 429.  The insert is
\* not guarded: when it throws, the error handler answers 500.
GateLog(p) ==
    /\ req[p].pc = "gatelog"
    /\ Responded
    /\ LET r == req[p]
       IN IF LogInsertable(r.eventId, NoInv)
          THEN /\ logs' = logs \cup
                     {NewLog("RATE_LIMITED", r.message, r.eventId, NoInv, r.adminId)}
               /\ nextLog' = nextLog + 1
               /\ req' = [req EXCEPT ![p] =
                     Finish([r EXCEPT !.wrote = @ \cup {nextLog}],
                            "RateLimited", r.message)]
          ELSE /\ UNCHANGED <<logs, nextLog>>
               /\ req' = [req EXCEPT ![p] = Finish(r, "InternalError", NoMsg)]
    /\ UNCHANGED <<now, nticks, settings, events, invitations, nextInv,
                   cleanup, toggle, join, mail, audit, peak>>

NewInvitation(token, eventId, method, email) ==
    [id |-> nextInv, token |-> token, eventId |-> eventId,
     deliveryMethod |-> method, email |-> email, isActive |-> TRUE,
     deactivatedAt |-> NoDate, usedAt |-> NoDate]

\* CreateInvitationRow without the unique index on Invitation.token.
CreateInvitationRow_noIndex(p, token) ==
    /\ req[p].pc = "create"
    /\ Responded
    /\ LET r == [req[p] EXCEPT !.token = token]
       IN IF r.eventId \in DOMAIN events
          THEN /\ invitations' = invitations \cup
                     {NewInvitation(token, r.eventId, r.method, r.email)}
               /\ nextInv' = nextInv + 1
               /\ req' = [req EXCEPT ![p] =
                     LET c == [r EXCEPT !.invId = nextInv]
                     IN IF r.method = "EMAIL" /\ r.email # Null
                        THEN [c EXCEPT !.pc = "config"]
                        ELSE Finish(c, "Created", NoMsg)]
          ELSE /\ UNCHANGED <<invitations, nextInv>>
               /\ req' = [req EXCEPT ![p] = Finish(r, "InternalError", NoMsg)]
    /\ UNCHANGED <<now, nticks, settings, events, logs, nextLog, cleanup,
                   toggle, join, mail, audit, peak>>

\* Lines 706-718: token, invitation.create.  token is the value of
\* crypto.randomBytes(24).  The insert throws when the event row is gone or
\* when the token is taken (Invitation.token is unique).
CreateInvitationRow(p, token) ==
    /\ req[p].pc = "create"
    /\ Responded
    /\ LET r == [req[p] EXCEPT !.token = token]
       IN IF /\ r.eventId \in DOMAIN events
             /\ \A i \in invitations : i.token # token
          THEN /\ invitations' = invitations \cup
                     {NewInvitation(token, r.eventId, r.method, r.email)}
               /\ nextInv' = nextInv + 1
               /\ req' = [req EXCEPT ![p] =
                     LET c == [r EXCEPT !.invId = nextInv]
                     IN IF r.method = "EMAIL" /\ r.email # Null
                        THEN [c EXCEPT !.pc = "config"]
                        ELSE Finish(c, "Created", NoMsg)]
          ELSE /\ UNCHANGED <<invitations, nextInv>>
               /\ req' = [req EXCEPT ![p] = Finish(r, "InternalError", NoMsg)]
    /\ UNCHANGED <<now, nticks, settings, events, logs, nextLog, cleanup,
                   toggle, join, mail, audit, peak>>

\* SendConfig without the disabled branch.
SendConfig_noDisabled(p) ==
    /\ req[p].pc = "config"
    /\ Responded
    /\ req' = [req EXCEPT ![p] = [@ EXCEPT !.pc = "send"]]
    /\ UNCHANGED <<now, nticks, settings, events, invitations, logs, nextInv,
                   nextLog, cleanup, toggle, join, mail, audit, peak>>

\* email.ts 146-193: getEmailConfig, rendering, the disabled branch and the
\* rate check that skipRateCheck switches off.
SendConfig(p) ==
    /\ req[p].pc = "config"
    /\ Responded
    /\ LET r == req[p]
           s == settings
           rate == checkRateLimit(r.adminId, s)
       IN req' = [req EXCEPT ![p] =
            IF ~isEmailSendingEnabled(s)
            THEN [r EXCEPT !.pc = "log", !.pending = "DISABLED",
                           !.message = <<"smtp", 0>>]
            ELSE IF ~skipRateCheck /\ ~rate.allowed
            THEN [r EXCEPT !.pc = "log", !.pending = "RATE_LIMITED",
                           !.checks = @ + 1,
                           !.message = <<rate.window, rate.limit>>]
            ELSE [r EXCEPT !.pc = "send",
                           !.checks = IF skipRateCheck THEN @ ELSE @ + 1]]
    /\ UNCHANGED <<now, nticks, settings, events, invitations, logs, nextInv,
                   nextLog, cleanup, toggle, join, mail, audit, peak>>

\* TransportSend without the try/catch: the error of the transport reaches
\* the error handler of the application.
TransportSend_uncaught(p, ok) ==
    /\ req[p].pc = "send"
    /\ Responded
    /\ req' = [req EXCEPT ![p] =
          IF ok
          THEN [@ EXCEPT !.pc = "log", !.pending = "SENT", !.sends = @ + 1]
          ELSE Finish([@ EXCEPT !.pending = "FAILED", !.sends = @ + 1],
                      "InternalError", NoMsg)]
    /\ UNCHANGED <<now, nticks, settings, events, invitations, logs, nextInv,
                   nextLog, cleanup, toggle, join, mail, audit, peak>>

\* TransportSend that tries a second time after a failure.
TransportSend_retry(p, ok) ==
    /\ req[p].pc = "send"
    /\ Responded
    /\ req' = [req EXCEPT ![p] =
          IF ok
          THEN [@ EXCEPT !.pc = "log", !.pending = "SENT", !.sends = @ + 1]
          ELSE IF req[p].sends = 0
          THEN [@ EXCEPT !.sends = @ + 1]
          ELSE [@ EXCEPT !.pc = "log", !.pending = "FAILED", !.sends = @ + 1,
                         !.message = <<"error", 0>>]]
    /\ UNCHANGED <<now, nticks, settings, events, invitations, logs, nextInv,
                   nextLog, cleanup, toggle, join, mail, audit, peak>>

\* email.ts 195-211 and 222-224: createTransport and sendMail inside try;
\* the transport answers or throws.
TransportSend(p, ok) ==
    /\ req[p].pc = "send"
    /\ Responded
    /\ req' = [req EXCEPT ![p] =
          IF ok
          THEN [@ EXCEPT !.pc = "log", !.pending = "SENT", !.sends = @ + 1]
          ELSE [@ EXCEPT !.pc = "log", !.pending = "FAILED", !.sends = @ + 1,
                         !.message = <<"error", 0>>]]
    /\ UNCHANGED <<now, nticks, settings, events, invitations, logs, nextInv,
                   nextLog, cleanup, toggle, join, mail, audit, peak>>

\* DispatchResult with the 429 and 500 answers mixed up.
DispatchResult_mixed(status) ==
    IF status = "FAILED" THEN "RateLimited"
    ELSE IF status = "RATE_LIMITED" THEN "DispatchError"
    ELSE "Created"

\* The status of the answer of the handler (index.ts 727-735) for the status
\* sendInvitationEmail returned.
DispatchResult(status) ==
    IF status = "RATE_LIMITED" THEN "RateLimited"
    ELSE IF status = "FAILED" THEN "DispatchError"
    ELSE "Created"

\* The logEmail call of the branch taken (email.ts 167, 182, 213, 225), the
\* return of sendInvitationEmail and index.ts 727-735.
LogAndRespond(p) ==
    /\ req[p].pc = "log"
    /\ Responded
    /\ LET r == req[p]
           msg == IF r.pending = "SENT" THEN NoMsg ELSE r.message
           w == IF LogInsertable(r.eventId, r.invId) THEN {nextLog} ELSE {}
           rolled == r.pending = "RATE_LIMITED"
           gone == ~\E i \in invitations : i.id = r.invId
       IN /\ logEmail(r.pending, msg, r.eventId, r.invId, r.adminId)
          /\ invitations' = IF rolled
                            THEN {i \in invitations : i.id # r.invId}
                            ELSE invitations
          /\ req' = [req EXCEPT ![p] =
                IF rolled /\ gone
                THEN Finish([r EXCEPT !.wrote = @ \cup w], "InternalError", NoMsg)
                ELSE Finish([r EXCEPT !.wrote = @ \cup w],
                            DispatchResult(r.pending),
                            IF r.pending = "DISABLED" THEN NoMsg ELSE msg)]
    /\ UNCHANGED <<now, nticks, settings, events, nextInv, cleanup,
                   toggle, join, mail, audit, peak>>

\* The response has been sent.
Reply(p) ==
    /\ req[p].pc = "done"
    /\ req' = [req EXCEPT ![p] = Idle]
    /\ UNCHANGED <<now, nticks, settings, events, invitations, logs, nextInv,
                   nextLog, cleanup, toggle, join, mail, audit, peak>>

\* No PUT /api/admin/events/:eventId/invitations/:invitationId in flight.
\* offs counts the deactivations written so far, up to MaxToggles.
ToggleIdle ==
    [pc |-> "idle", eventId |-> Null, invitationId |-> NoInv,
     isActive |-> "undefined", result |-> "none", offs |-> 0]

ToggleBodies == {"true", "false", "undefined"}

\* SetInvitationActive with the lookup by id alone.
SetInvitationActive_anyEvent(eventId, invitationId, isActive) ==
    /\ toggle.pc = "idle"
    /\ Responded
    /\ LET t == [toggle EXCEPT !.eventId = eventId,
                               !.invitationId = invitationId,
                               !.isActive = isActive]
       IN toggle' =
            IF isActive \notin {"true", "false"}
            THEN [t EXCEPT !.pc = "done", !.result = "InvalidRequest"]
            ELSE IF ~\E i \in invitations : i.id = invitationId
            THEN [t EXCEPT !.pc = "done", !.result = "NotFound"]
            ELSE [t EXCEPT !.pc = "update"]
    /\ UNCHANGED <<now, nticks, settings, events, invitations, logs, nextInv,
                   nextLog, req, cleanup, join, mail, audit, peak>>

\* Lines 743-751: the body check and invitation.findFirst by id and event.
SetInvitationActive(eventId, invitationId, isActive) ==
    /\ toggle.pc = "idle"
    /\ Responded
    /\ LET t == [toggle EXCEPT !.eventId = eventId,
                               !.invitationId = invitationId,
                               !.isActive = isActive]
       IN toggle' =
            IF isActive \notin {"true", "false"}
            THEN [t EXCEPT !.pc = "done", !.result = "InvalidRequest"]
            ELSE IF ~\E i \in invitations :
                       i.id = invitationId /\ i.eventId = eventId
            THEN [t EXCEPT !.pc = "done", !.result = "NotFound"]
            ELSE [t EXCEPT !.pc = "update"]
    /\ UNCHANGED <<now, nticks, settings, events, invitations, logs, nextInv,
                   nextLog, req, cleanup, join, mail, audit, peak>>

\* ToggleData that leaves the timestamp of the deactivation in place.
ToggleData_keepStamp(i, active) ==
    [i EXCEPT !.isActive = active,
              !.deactivatedAt = IF active THEN @ ELSE now]

\* ToggleData that stamps on activation.
ToggleData_swapped(i, active) ==
    [i EXCEPT !.isActive = active,
              !.deactivatedAt = IF active THEN now ELSE NoDate]

\* The data of invitation.update (lines 754-757).
ToggleData(i, active) ==
    [i EXCEPT !.isActive = active,
              !.deactivatedAt = IF active THEN NoDate ELSE now]

\* Lines 752-766: invitation.update by id and the answer.  Without the row
\* the update throws.
UpdateInvitation ==
    /\ toggle.pc = "update"
    /\ Responded
    /\ LET active == toggle.isActive = "true"
       IN IF \E i \in invitations : i.id = toggle.invitationId
          THEN /\ invitations' =
                     {IF i.id = toggle.invitationId THEN ToggleData(i, active)
                      ELSE i : i \in invitations}
               /\ toggle' = [toggle EXCEPT
                     !.pc = "done", !.result = "Ok",
                     !.offs = IF active \/ @ = MaxToggles THEN @ ELSE @ + 1]
          ELSE /\ UNCHANGED invitations
               /\ toggle' = [toggle EXCEPT !.pc = "done",
                                           !.result = "InternalError"]
    /\ UNCHANGED <<now, nticks, settings, events, logs, nextInv, nextLog, req,
                   cleanup, join, mail, audit, peak>>

\* The response has been sent.
ToggleReply ==
    /\ toggle.pc = "done"
    /\ toggle' = [ToggleIdle EXCEPT !.offs = toggle.offs]
    /\ UNCHANGED <<now, nticks, settings, events, invitations, logs, nextInv,
                   nextLog, req, cleanup, join, mail, audit, peak>>

\* ResolveJoin with the end of the event looked at before the flag.
ResolveJoin_expiredFirst(token) ==
    IF ~\E i \in invitations : i.token = token THEN "NotFound"
    ELSE LET invitation == CHOOSE i \in invitations : i.token = token
         IN  IF events[invitation.eventId].endsAt < now THEN "Expired"
             ELSE IF ~invitation.isActive THEN "Inactive"
             ELSE "Ok"

\* Lines 798-811: findUnique by token with its event, and the branch taken.
ResolveJoin(token) ==
    IF ~\E i \in invitations : i.token = token THEN "NotFound"
    ELSE LET invitation == CHOOSE i \in invitations : i.token = token
         IN  IF ~invitation.isActive THEN "Inactive"
             ELSE IF events[invitation.eventId].endsAt < now THEN "Expired"
             ELSE "Ok"

\* No GET /join/:token answer being sent.
JoinIdle ==
    [asked |-> NoToken, outcome |-> "none", status |-> 0, message |-> "none",
     event |-> Null, token |-> NoToken, deliveryMethod |-> "none"]

\* Lines 802-815: status and body of the answer.  The message of line 806
\* is written without its umlaut.
JoinResponse(token) ==
    LET outcome == ResolveJoin(token)
        r == [JoinIdle EXCEPT !.asked = token, !.outcome = outcome]
    IN  IF outcome = "NotFound"
        THEN [r EXCEPT !.status = 404, !.message = "Invitation not found"]
        ELSE IF outcome = "Inactive"
        THEN [r EXCEPT !.status = 400,
                       !.message = "Diese Einladung ist nicht mehr gueltig."]
        ELSE IF outcome = "Expired"
        THEN [r EXCEPT !.status = 400, !.message = "Event expired"]
        ELSE LET invitation == CHOOSE i \in invitations : i.token = token
             IN  [r EXCEPT !.status = 200,
                           !.event = invitation.eventId,
                           !.token = invitation.token,
                           !.deliveryMethod = invitation.deliveryMethod]

\* Join that stamps usedAt on the invitation it resolves.
Join_stampsUsed(token) ==
    /\ Responded
    /\ join' = JoinResponse(token)
    /\ invitations' = {IF i.token = token /\ ResolveJoin(token) = "Ok"
                       THEN [i EXCEPT !.usedAt = now] ELSE i : i \in invitations}
    /\ UNCHANGED <<now, nticks, settings, events, logs, nextInv, nextLog, req,
                   cleanup, toggle, mail, audit, peak>>

\* Lines 794-817: GET /join/:token.
Join(token) ==
    /\ Responded
    /\ join' = JoinResponse(token)
    /\ UNCHANGED <<now, nticks, settings, events, invitations, logs, nextInv,
                   nextLog, req, cleanup, toggle, mail, audit, peak>>

\* The response has been sent.
JoinReply ==
    /\ join.outcome # "none"
    /\ join' = JoinIdle
    /\ UNCHANGED <<now, nticks, settings, events, invitations, logs, nextInv,
                   nextLog, req, cleanup, toggle, mail, audit, peak>>

EmailStatuses == {"SENT", "FAILED", "DISABLED", "RATE_LIMITED"}

\* req.query.status: a member of the enum, none, or another string.
StatusFilters == EmailStatuses \cup {"undefined", "BOGUS"}

\* No GET /api/admin/events/:id/email-logs answer being sent.
AuditIdle == [eventId |-> Null, filter |-> "undefined", status |-> 0, rows |-> {}]

\* orderBy createdAt desc, take 100: the rows of the page.
Page(rows) ==
    IF Cardinality(rows) <= PageSize THEN rows
    ELSE CHOOSE S \in SUBSET rows :
            /\ Cardinality(S) = PageSize
            /\ \A x \in S, y \in rows \ S : x.createdAt >= y.createdAt

\* Lines 775-791: the where clause, findMany and the answer.
AuditRows(id, status) ==
    [eventId |-> id, filter |-> status, status |-> 200,
     rows |-> IF status # "undefined" /\ status \in EmailStatuses
              THEN Page({l \in logs : l.eventId = id /\ l.status = status})
              ELSE Page({l \in logs : l.eventId = id})]

\* Lines 770-792: GET /api/admin/events/:id/email-logs.
ListAuditRecords(id, status) ==
    /\ Responded
    /\ audit' = AuditRows(id, status)
    /\ UNCHANGED <<now, nticks, settings, events, invitations, logs, nextInv,
                   nextLog, req, cleanup, toggle, join, mail, peak>>

\* The response has been sent.
AuditReply ==
    /\ audit.status # 0
    /\ audit' = AuditIdle
    /\ UNCHANGED <<now, nticks, settings, events, invitations, logs, nextInv,
                   nextLog, req, cleanup, toggle, join, mail, peak>>

\* What the body of PUT /api/admin/settings can carry for a ceiling: a
\* number, a string (value is what it would convert to), or nothing.
CeilingInputs ==
    [type : {"number"}, value : (0 - 1)..MaxCeil]
        \cup {[type |-> "string", value |-> 1],
              [type |-> "undefined", value |-> 0]}

SmtpInputs == {"keep", "set", "clear"}

\* The test of lines 323 and 326 without the comparison.
ValidCeiling_anyNumber(x) == x.type = "number"

\* typeof x === 'number' && x > 0
ValidCeiling(x) == x.type = "number" /\ x.value > 0

\* Lines 283-355: PUT /api/admin/settings, the SMTP and rate-limit fields.
\* smtp is "keep" (no SMTP field sent), "set" (all five sent) or "clear".
\* A ceiling that is not a number > 0 is left out of the update.
UpdateSettings(smtp, perHour, perDay) ==
    /\ Responded
    /\ settings' =
          [smtp |-> IF smtp = "keep" THEN settings.smtp ELSE smtp = "set",
           perHour |-> IF ValidCeiling(perHour) THEN perHour.value
                       ELSE settings.perHour,
           perDay |-> IF ValidCeiling(perDay) THEN perDay.value
                      ELSE settings.perDay]
    /\ settings' # settings
    /\ UNCHANGED <<now, nticks, events, invitations, logs, nextInv, nextLog, req,
                   cleanup, toggle, join, mail, audit, peak>>

Tick(d) ==
    /\ nticks < MaxTicks
    /\ Responded
    /\ now' = now + d
    /\ nticks' = nticks + 1
    /\ UNCHANGED <<settings, events, invitations, logs, nextInv, nextLog, req,
                   cleanup, toggle, join, mail, audit, peak>>

\* Lines 507-522: DELETE /api/admin/events/:id, one transaction.  Without
\* the event row event.delete throws and the transaction changes nothing.
DeleteEvent(id) ==
    /\ id \in DOMAIN events
    /\ Responded
    /\ logs' = {l \in logs : l.eventId # id}
    /\ invitations' = {i \in invitations : i.eventId # id}
    /\ events' = [e \in DOMAIN events \ {id} |-> events[e]]
    /\ UNCHANGED <<now, nticks, settings, nextInv, nextLog, req, cleanup,
                   toggle, join, mail, audit, peak>>

\* ------------------------------------------------------------ cleanup.ts

\* prisma/schema.prisma is not part of the sources: each run of the script
\* meets one referential action on the EmailLog foreign keys.
OnDeleteActions == {"SetNull", "Restrict", "Cascade"}

CleanupIdle == [pc |-> "idle", todo |-> {}, evt |-> Null, onDelete |-> "SetNull"]

\* Lines 9-13: the cutoff and the expired events.  retention is
\* DATA_RETENTION_DAYS of the run.
CleanupStart(retention, onDelete) ==
    /\ cleanup.pc = "idle"
    /\ Responded
    /\ LET cutoff == now - retention * DayMs
           expiredEvents == {e \in DOMAIN events : events[e].endsAt < cutoff}
       IN /\ expiredEvents # {}
          /\ \E evt \in expiredEvents :
                cleanup' = [pc |-> "invitations", todo |-> expiredEvents \ {evt},
                            evt |-> evt, onDelete |-> onDelete]
    /\ UNCHANGED <<now, nticks, settings, events, invitations, logs, nextInv,
                   nextLog, req, toggle, join, mail, audit, peak>>

\* What a delete of the rows `gone` does to the EmailLog rows `refs` that
\* reference them through `field`.
LogsAfterDelete(refs, field) ==
    IF cleanup.onDelete = "Cascade" THEN logs \ refs
    ELSE {IF l \in refs
          THEN (IF field = "eventId" THEN [l EXCEPT !.eventId = Null]
                                     ELSE [l EXCEPT !.invitationId = NoInv])
          ELSE l : l \in logs}

\* Line 16: invitation.deleteMany of the event.
CleanupInvitations ==
    /\ cleanup.pc = "invitations"
    /\ Responded
    /\ LET gone == {i \in invitations : i.eventId = cleanup.evt}
           refs == {l \in logs : \E i \in gone : l.invitationId = i.id}
       IN IF cleanup.onDelete = "Restrict" /\ refs # {}
          THEN /\ cleanup' = CleanupIdle
               /\ UNCHANGED <<invitations, logs>>
          ELSE /\ invitations' = invitations \ gone
               /\ logs' = LogsAfterDelete(refs, "invitationId")
               /\ cleanup' = [cleanup EXCEPT !.pc = "event"]
    /\ UNCHANGED <<now, nticks, settings, events, nextInv, nextLog, req,
                   toggle, join, mail, audit, peak>>

\* Line 18: event.delete, then the next event of the loop.
CleanupEvent ==
    /\ cleanup.pc = "event"
    /\ Responded
    /\ LET evt == cleanup.evt
           children == {i \in invitations : i.eventId = evt}
           refs == {l \in logs : l.eventId = evt}
           blocked == \/ evt \notin DOMAIN events
                      \/ cleanup.onDelete # "Cascade" /\ children # {}
                      \/ cleanup.onDelete = "Restrict" /\ refs # {}
       IN IF blocked
          THEN /\ cleanup' = CleanupIdle
               /\ UNCHANGED <<events, invitations, logs>>
          ELSE /\ events' = [e \in DOMAIN events \ {evt} |-> events[e]]
               /\ invitations' = invitations \ children
               /\ logs' = LogsAfterDelete(refs, "eventId")
               /\ IF cleanup.todo = {}
                  THEN cleanup' = CleanupIdle
                  ELSE \E next \in cleanup.todo :
                         cleanup' = [cleanup EXCEPT !.pc = "invitations",
                                                    !.todo = @ \ {next},
                                                    !.evt = next]
    /\ UNCHANGED <<now, nticks, settings, nextInv, nextLog, req,
                   toggle, join, mail, audit, peak>>

\* ------------------------------------------------------------ the system

\* start(): ensureSystemSettings creates the settings row from the
\* environment.  Event e1 exists and ends at noon; e2 was never created.
Init ==
    /\ now = 0
    /\ nticks = 0
    /\ settings \in [smtp : BOOLEAN, perHour : 0..MaxCeil, perDay : 0..MaxCeil]
    /\ events = [e \in {"e1"} |-> [endsAt |-> 12]]
    /\ invitations = {}
    /\ logs = {}
    /\ nextInv = 1
    /\ nextLog = 1
    /\ req = [p \in Procs |-> Idle]
    /\ cleanup = CleanupIdle
    /\ toggle = ToggleIdle
    /\ join = JoinIdle
    /\ mail = MailIdle
    /\ audit = AuditIdle
    /\ peak = [a \in Admins |-> 0]

\* One step of a POST /api/admin/events/:id/invitations request.
Dispatch ==
    \/ \E p \in Procs, a \in Admins, e \in Events,
          m \in {"LINK", "EMAIL"}, em \in {Null, Recipient} :
          StartDispatch(p, a, e, m, em)
    \/ \E p \in Procs : PreQuotaGate(p)
    \/ \E p \in Procs : GateLog(p)
    \/ \E p \in Procs, t \in Tokens : CreateInvitationRow(p, t)
    \/ \E p \in Procs : SendConfig(p)
    \/ \E p \in Procs, ok \in BOOLEAN : TransportSend(p, ok)
    \/ \E p \in Procs : LogAndRespond(p)
    \/ \E p \in Procs : Reply(p)

Next ==
    \/ Dispatch
    \/ \E s \in SmtpInputs, h \in CeilingInputs, d \in CeilingInputs :
          UpdateSettings(s, h, d)
    \/ \E d \in TickSteps : Tick(d)
    \/ \E e \in Events : DeleteEvent(e)

Spec == Init /\ [][Next]_vars

\* The server started with both ceilings set to 0 in the environment
\* (Number('0' || 50) is 0) and no SMTP server.
InitSettings ==
    /\ now = 0
    /\ nticks = 0
    /\ settings = [smtp |-> FALSE, perHour |-> 0, perDay |-> 0]
    /\ events = [e \in {"e1"} |-> [endsAt |-> 12]]
    /\ invitations = {}
    /\ logs = {}
    /\ nextInv = 1
    /\ nextLog = 1
    /\ req = [p \in Procs |-> Idle]
    /\ cleanup = CleanupIdle
    /\ toggle = ToggleIdle
    /\ join = JoinIdle
    /\ mail = MailIdle
    /\ audit = AuditIdle
    /\ peak = [a \in Admins |-> 0]

\* The settings endpoint beside the dispatches of links, which need no
\* SMTP server, and the clock.
NextSettings ==
    \/ \E s \in SmtpInputs, h \in CeilingInputs, d \in CeilingInputs :
          UpdateSettings(s, h, d)
    \/ \E p \in Procs, a \in Admins, e \in Events :
          StartDispatch(p, a, e, "LINK", Null)
    \/ \E p \in Procs, t \in Tokens : CreateInvitationRow(p, t)
    \/ \E p \in Procs : Reply(p)
    \/ \E d \in TickSteps : Tick(d)

SpecSettings == InitSettings /\ [][NextSettings]_vars

\* The deletion of events: both events have ended, e1 more than a day ago,
\* and the dispatches that fill the store run beside the admin endpoint
\* and the cleanup script.
InitCleanup ==
    /\ now = 0
    /\ nticks = 0
    /\ settings = [smtp |-> TRUE, perHour |-> 1, perDay |-> 1]
    /\ events = [e \in Events |-> [endsAt |-> IF e = "e1" THEN 0 - 30 ELSE 0 - 1]]
    /\ invitations = {}
    /\ logs = {}
    /\ nextInv = 1
    /\ nextLog = 1
    /\ req = [p \in Procs |-> Idle]
    /\ cleanup = CleanupIdle
    /\ toggle = ToggleIdle
    /\ join = JoinIdle
    /\ mail = MailIdle
    /\ audit = AuditIdle
    /\ peak = [a \in Admins |-> 0]

NextCleanup ==
    \/ Dispatch
    \/ \E e \in Events : DeleteEvent(e)
    \/ \E r \in RetentionChoices, a \in OnDeleteActions : CleanupStart(r, a)
    \/ CleanupInvitations
    \/ CleanupEvent

SpecCleanup == InitCleanup /\ [][NextCleanup]_vars

\* The life of an invitation: dispatches issue invitations of event e1,
\* which ends at noon, while the operator toggles them, players resolve
\* tokens, time passes and the event is deleted.
InitToggle ==
    /\ now = 0
    /\ nticks = 0
    /\ settings = [smtp |-> TRUE, perHour |-> 1, perDay |-> 1]
    /\ events = [e \in {"e1"} |-> [endsAt |-> 12]]
    /\ invitations = {}
    /\ logs = {}
    /\ nextInv = 1
    /\ nextLog = 1
    /\ req = [p \in Procs |-> Idle]
    /\ cleanup = CleanupIdle
    /\ toggle = ToggleIdle
    /\ join = JoinIdle
    /\ mail = MailIdle
    /\ audit = AuditIdle
    /\ peak = [a \in Admins |-> 0]

NextToggle ==
    \/ Dispatch
    \/ \E e \in Events, i \in InvIds, b \in ToggleBodies :
          SetInvitationActive(e, i, b)
    \/ UpdateInvitation
    \/ ToggleReply
    \/ \E t \in Tokens : Join(t)
    \/ JoinReply
    \/ \E d \in TickSteps : Tick(d)
    \/ \E e \in Events : DeleteEvent(e)

SpecToggle == InitToggle /\ [][NextToggle]_vars

\* The quota check on its inputs: the settings row or none, the clock, and
\* n records of operator a1 written at hour 0, all counted or all
\* RATE_LIMITED.  Request 1 is an EMAIL dispatch of a1 about to call
\* precheckRateLimit.
QuotaSettings ==
    {NoSettings} \cup [smtp : {TRUE}, perHour : {NoCeil} \cup (0..MaxCeil),
                                      perDay : {NoCeil} \cup (0..MaxCeil)]

QuotaLogs(n, status) ==
    {[id |-> k, recipient |-> Recipient, status |-> status,
      errorMessage |-> NoMsg, eventId |-> "e1", invitationId |-> NoInv,
      adminId |-> "a1", createdAt |-> 0] : k \in 1..n}

InitQuota ==
    /\ now \in {0, HourMs + 1, DayMs + 1}
    /\ nticks = 0
    /\ settings \in QuotaSettings
    /\ events = [e \in {"e1"} |-> [endsAt |-> 12]]
    /\ invitations = {}
    /\ \E n \in 0..MaxCount, st \in {"SENT", "RATE_LIMITED"} :
          /\ logs = QuotaLogs(n, st)
          /\ nextLog = n + 1
    /\ nextInv = 1
    /\ req = [p \in Procs |->
                IF p = 1
                THEN [Idle EXCEPT !.pc = "precheck", !.adminId = "a1",
                                  !.eventId = "e1", !.method = "EMAIL",
                                  !.email = Recipient]
                ELSE Idle]
    /\ cleanup = CleanupIdle
    /\ toggle = ToggleIdle
    /\ join = JoinIdle
    /\ mail = MailIdle
    /\ audit = AuditIdle
    /\ peak = [a \in Admins |-> IF a = "a1" THEN 1 ELSE 0]

NextQuota == \E p \in Procs : PreQuotaGate(p)

SpecQuota == InitQuota /\ [][NextQuota]_vars

\* The audit listing beside the dispatches that write the records.
NextAudit ==
    \/ Dispatch
    \/ \E e \in Events, f \in StatusFilters : ListAuditRecords(e, f)
    \/ AuditReply

SpecAudit == InitToggle /\ [][NextAudit]_vars

\* The message of one invitation: every template of at most MaxLen pieces
\* and every description of the event.
InitRender ==
    /\ now = 0
    /\ nticks = 0
    /\ settings = [smtp |-> TRUE, perHour |-> 1, perDay |-> 1]
    /\ events = [e \in {"e1"} |-> [endsAt |-> 12]]
    /\ invitations = {}
    /\ logs = {}
    /\ nextInv = 1
    /\ nextLog = 1
    /\ req = [p \in Procs |-> Idle]
    /\ cleanup = CleanupIdle
    /\ toggle = ToggleIdle
    /\ join = JoinIdle
    /\ mail \in {[MailIdle EXCEPT !.pc = "template", !.template = t,
                                   !.description = d] :
                     t \in Templates, d \in Descriptions}
    /\ audit = AuditIdle
    /\ peak = [a \in Admins |-> 0]

NextRender == RenderMail \/ EnsureInviteLinkCall

SpecRender == InitRender /\ [][NextRender]_vars

\* Dispatches racing for the quota: the ceilings are set once, nothing is
\* deleted, time passes.
InitRace ==
    /\ now = 0
    /\ nticks = 0
    /\ settings \in [smtp : {TRUE}, perHour : 0..MaxCeil, perDay : 0..MaxCeil]
    /\ events = [e \in {"e1"} |-> [endsAt |-> 12]]
    /\ invitations = {}
    /\ logs = {}
    /\ nextInv = 1
    /\ nextLog = 1
    /\ req = [p \in Procs |-> Idle]
    /\ cleanup = CleanupIdle
    /\ toggle = ToggleIdle
    /\ join = JoinIdle
    /\ mail = MailIdle
    /\ audit = AuditIdle
    /\ peak = [a \in Admins |-> 0]

NextRace ==
    \/ Dispatch
    \/ \E d \in TickSteps : Tick(d)

SpecRace == InitRace /\ [][NextRace]_vars

\* The dispatches under the scheduling of the event loop: a continuation
\* whose store call has answered runs, so every step of a request but the
\* answer of the transport is taken if it can be taken again and again.
\* The transport answers, throws, or does neither.
StoreStep(p) ==
    \/ PreQuotaGate(p)
    \/ GateLog(p)
    \/ \E t \in Tokens : CreateInvitationRow(p, t)
    \/ SendConfig(p)
    \/ LogAndRespond(p)
    \/ Reply(p)

SpecHang ==
    /\ InitRace
    /\ [][Dispatch]_vars
    /\ \A p \in Procs : SF_vars(StoreStep(p))

\* ------------------------------------------------------------ the claims

Done(p) == req[p].pc = "done"

\* The audit records of operator a that consumed quota in the last hour.
SendsLastHour(a) ==
    Cardinality({l \in logs : /\ l.adminId = a
                              /\ l.status \in {"SENT", "FAILED", "DISABLED"}
                              /\ now - l.createdAt <= HourMs})

\* C1: when the hourly ceiling is H > 0 and the operator has at least H
\* records other than RATE_LIMITED of the last hour, the quota gate of an
\* EMAIL dispatch denies with the message naming H; the denied dispatch (its
\* event still there) appends exactly one RATE_LIMITED record tagged to the
\* event and the operator, and answers RateLimited with that message.
C1_HourlyCeilingRejects ==
    [][\A p \in Procs :
         /\ (/\ req[p].pc = "precheck" /\ req'[p].pc # "precheck"
             /\ settings.perHour > 0
             /\ SendsLastHour(req[p].adminId) >= settings.perHour)
            => /\ req'[p].pc = "gatelog"
               /\ req'[p].message = <<"hour", settings.perHour>>
         /\ (/\ req[p].pc = "gatelog" /\ req'[p].pc # "gatelog"
             /\ req[p].eventId \in DOMAIN events)
            => /\ req'[p].pc = "done"
               /\ req'[p].result = "RateLimited"
               /\ req'[p].message = req[p].message
               /\ \E l \in logs' \ logs :
                    /\ logs' = logs \cup {l}
                    /\ l.status = "RATE_LIMITED"
                    /\ l.eventId = req[p].eventId
                    /\ l.adminId = req[p].adminId
                    /\ l.errorMessage = req[p].message]_vars

C1_Witness ==
    \E p \in Procs :
        /\ Done(p) /\ req[p].result = "RateLimited"
        /\ req[p].message = <<"hour", settings.perHour>>
        /\ SendsLastHour(req[p].adminId) >= settings.perHour
        /\ \E l \in logs : req[p].wrote = {l.id} /\ l.status = "RATE_LIMITED"

\* C2: a finished EMAIL dispatch with outcome RATE_LIMITED, DISABLED, SENT
\* or FAILED has inserted exactly one audit record, with that outcome.
C2_OneRecordPerOutcome ==
    \A p \in Procs :
        (Done(p) /\ req[p].pending # "none")
        => \E l \in logs : req[p].wrote = {l.id} /\ l.status = req[p].pending

\* C3: a step that only appends RATE_LIMITED records changes, for no
\* operator, the hourly and daily counts nor the answer of the quota check.
C3_RateLimitedNotCounted ==
    [][(/\ logs' # logs
        /\ logs \subseteq logs'
        /\ \A l \in logs' \ logs : l.status = "RATE_LIMITED")
       => \A a \in Admins :
            /\ countEmails(a, now - HourMs)' = countEmails(a, now - HourMs)
            /\ countEmails(a, now - DayMs)' = countEmails(a, now - DayMs)
            /\ checkRateLimit(a, settings)' = checkRateLimit(a, settings)]_vars

C3_Witness ==
    \E a \in Admins :
        /\ Cardinality({l \in logs : l.adminId = a /\ l.status = "RATE_LIMITED"}) >= 2
        /\ settings.perHour > 0
        /\ countEmails(a, now - HourMs) = settings.perHour

\* C4: a dispatch that answers RateLimited has handed nothing to the
\* transport and no invitation it created is in the store.
C4_RateLimitedLeavesNothing ==
    \A p \in Procs :
        (Done(p) /\ req[p].result = "RateLimited")
        => /\ req[p].sends = 0
           /\ \A i \in invitations : i.id # req[p].invId

C4_Witness ==
    \E p \in Procs :
        /\ Done(p) /\ req[p].result = "RateLimited"
        /\ req[p].invId = NoInv
        /\ invitations # {}

\* The invitation a dispatch created is in the store, active, and its
\* token resolves.
InvitationUsable(r) ==
    \E i \in invitations :
        /\ i.id = r.invId /\ i.token = r.token /\ i.eventId = r.eventId
        /\ i.isActive
        /\ ResolveJoin(i.token) \notin {"NotFound", "Inactive"}

\* C5: an EMAIL request without recipient is rejected as InvalidRequest and
\* an EMAIL request while the transport is unconfigured as Disabled; the
\* rejecting step changes no invitation and no audit record and the request
\* has sent nothing, checked no quota and created nothing.
C5_BoundaryRejectionsLeaveNoTrace ==
    [][\A p \in Procs :
         /\ (/\ req[p].pc = "idle" /\ req'[p].pc # "idle"
             /\ req'[p].method = "EMAIL"
             /\ req'[p].eventId \in DOMAIN events)
            => /\ req'[p].email = Null
                  => req'[p].pc = "done" /\ req'[p].result = "InvalidRequest"
               /\ (req'[p].email # Null /\ ~isEmailSendingEnabled(settings))
                  => req'[p].pc = "done" /\ req'[p].result = "Disabled"
         /\ (/\ req[p].pc # "done" /\ req'[p].pc = "done"
             /\ req'[p].result \in {"InvalidRequest", "Disabled"})
            => /\ invitations' = invitations
               /\ logs' = logs
               /\ nextInv' = nextInv /\ nextLog' = nextLog
               /\ req'[p].sends = 0 /\ req'[p].checks = 0
               /\ req'[p].wrote = {} /\ req'[p].invId = NoInv]_vars

C5_Witness ==
    /\ \E p \in Procs : Done(p) /\ req[p].result = "Disabled"
                          /\ req[p].method = "EMAIL" /\ req[p].email # Null
    /\ logs # {}
    /\ invitations # {}

\* C6: a dispatch whose transport send failed answers DispatchError with a
\* message; if its event was not deleted meanwhile it has inserted exactly
\* one FAILED record carrying an error message, and its invitation is still
\* in the store, active and resolvable.
C6_TransportFailureRecorded ==
    \A p \in Procs :
        (Done(p) /\ req[p].pending = "FAILED")
        => /\ req[p].result = "DispatchError"
           /\ req[p].message # NoMsg
           /\ req[p].sends = 1
           /\ req[p].eventId \in DOMAIN events
              => /\ \E l \in logs : /\ req[p].wrote = {l.id}
                                     /\ l.status = "FAILED"
                                     /\ l.errorMessage # NoMsg
                                     /\ l.invitationId = req[p].invId
                                     /\ l.adminId = req[p].adminId
                 /\ InvitationUsable(req[p])

C6_Witness ==
    \E p \in Procs :
        /\ Done(p) /\ req[p].pending = "FAILED"
        /\ req[p].result = "DispatchError"
        /\ \E l \in logs : req[p].wrote = {l.id} /\ l.status = "FAILED"
        /\ InvitationUsable(req[p])
        /\ ResolveJoin(req[p].token) = "Ok"

\* C7: when the transport is unconfigured at the configuration read of
\* sendInvitationEmail, the dispatch goes to the DISABLED record without a
\* send; it then answers success with its invitation, and if its event was
\* not deleted meanwhile it has inserted exactly one DISABLED record and its
\* invitation is in the store, active and resolvable.
C7_DisabledMidFlight ==
    [][\A p \in Procs :
         /\ (/\ req[p].pc = "config" /\ req'[p].pc # "config"
             /\ ~isEmailSendingEnabled(settings))
            => /\ req'[p].pc = "log"
               /\ req'[p].pending = "DISABLED"
               /\ req'[p].sends = 0
         /\ (/\ req[p].pc = "log" /\ req'[p].pc # "log"
             /\ req[p].pending = "DISABLED")
            => /\ req'[p].pc = "done"
               /\ req'[p].result = "Created"
               /\ req'[p].sends = 0
               /\ req'[p].invId = req[p].invId /\ req'[p].token = req[p].token
               /\ req[p].eventId \in DOMAIN events
                  => /\ \E l \in logs' \ logs :
                          /\ logs' = logs \cup {l}
                          /\ l.status = "DISABLED"
                          /\ l.invitationId = req[p].invId
                          /\ req'[p].wrote = {l.id}
                     /\ InvitationUsable(req[p])']_vars

C7_Witness ==
    \E p \in Procs :
        /\ Done(p) /\ req[p].pending = "DISABLED" /\ req[p].result = "Created"
        /\ req[p].sends = 0
        /\ \E l \in logs : req[p].wrote = {l.id} /\ l.status = "DISABLED"
        /\ InvitationUsable(req[p])
        /\ ~isEmailSendingEnabled(settings)

\* The token a dispatch drew did not meet the unique index.
TokenFresh(r) ==
    r.invId # NoInv \/ \A i \in invitations : i.token # r.token

\* C8: a LINK request never reaches the quota gate, the transport or the
\* audit log, and when it is done, its event exists and the token it drew
\* was not taken, it has answered success and its invitation is in the
\* store, active, with method LINK.
C8_LinkAlwaysProceeds ==
    \A p \in Procs :
        (req[p].pc # "idle" /\ req[p].method = "LINK")
        => /\ req[p].pc \in {"create", "done"}
           /\ req[p].checks = 0 /\ req[p].sends = 0 /\ req[p].wrote = {}
           /\ req[p].pending = "none"
           /\ (Done(p) /\ req[p].eventId \in DOMAIN events /\ TokenFresh(req[p]))
              => /\ req[p].result = "Created"
                 /\ InvitationUsable(req[p])
                 /\ \E i \in invitations :
                      i.id = req[p].invId /\ i.deliveryMethod = "LINK"

C8_Witness ==
    \E p \in Procs :
        /\ Done(p) /\ req[p].method = "LINK" /\ req[p].result = "Created"
        /\ InvitationUsable(req[p])
        /\ ~isEmailSendingEnabled(settings)
        /\ settings.perHour > 0
        /\ countEmails(req[p].adminId, now - HourMs) >= settings.perHour
        /\ \A l \in logs : l.status # "DISABLED"

C10_CascadeAtomic ==
    [][\A e \in Events :
         (\E i \in invitations :
             i.eventId = e /\ \A j \in invitations' : j.id # i.id)
         => /\ e \notin DOMAIN events'
            /\ \A l \in logs' : l.eventId # e]_vars

\* C11: every invitation in the store, whatever dispatches and toggles came
\* before, has deactivatedAt set exactly when its isActive flag is false.
C11_DeactivatedIffInactive ==
    \A i \in invitations : (i.deactivatedAt # NoDate) <=> ~i.isActive

C11_Witness ==
    /\ toggle.pc = "done" /\ toggle.result = "Ok"
    /\ \E i \in invitations : ~i.isActive /\ i.deactivatedAt = now /\ now > 0
    /\ \E i \in invitations : i.isActive /\ i.deactivatedAt = NoDate
    /\ toggle.offs = MaxToggles

\* C12: a toggle request with active = true that reaches its update leaves
\* the invitation active with deactivatedAt cleared, however many
\* deactivations and reactivations were written before.
C12_ReactivationRestores ==
    (toggle.pc = "done" /\ toggle.result = "Ok" /\ toggle.isActive = "true")
    => \E i \in invitations :
          /\ i.id = toggle.invitationId
          /\ i.isActive
          /\ i.deactivatedAt = NoDate

C12_Witness ==
    /\ toggle.pc = "done" /\ toggle.result = "Ok" /\ toggle.isActive = "true"
    /\ toggle.offs = MaxToggles
    /\ nextInv = 2
    /\ \E i \in invitations : i.id = toggle.invitationId /\ i.isActive

\* C13: a toggle request whose invitation does not exist, or belongs to
\* another event than the one named, is answered NotFound by its first
\* step, and that step changes no invitation.
C13_ToggleNotFound ==
    [][(toggle.pc = "idle" /\ toggle'.pc # "idle"
        /\ toggle'.isActive \in {"true", "false"}
        /\ ~\E i \in invitations : /\ i.id = toggle'.invitationId
                                     /\ i.eventId = toggle'.eventId)
       => /\ toggle'.pc = "done"
          /\ toggle'.result = "NotFound"
          /\ invitations' = invitations]_vars

C13_Witness ==
    /\ toggle.pc = "done" /\ toggle.result = "NotFound"
    /\ toggle.isActive = "false"
    /\ \E i \in invitations : /\ i.id = toggle.invitationId
                                /\ i.eventId # toggle.eventId
                                /\ i.isActive /\ i.deactivatedAt = NoDate

\* C14: the answer to a join request is NotFound (404) when no invitation
\* carries the token; otherwise, for the invitation that carries it, the
\* generic "no longer valid" answer, which is not a 404, when it is
\* inactive; otherwise Expired when its event ended before now; otherwise
\* the event and the token and delivery method of the invitation.
C14_JoinPrecedence ==
    join.outcome # "none"
    => LET found == {i \in invitations : i.token = join.asked}
       IN /\ found = {} => join.outcome = "NotFound" /\ join.status = 404
          /\ \A i \in found :
               /\ ~i.isActive
                  => /\ join.outcome = "Inactive"
                     /\ join.status # 404
                     /\ join.message = "Diese Einladung ist nicht mehr gueltig."
               /\ (i.isActive /\ events[i.eventId].endsAt < now)
                  => join.outcome = "Expired"
               /\ (i.isActive /\ events[i.eventId].endsAt >= now)
                  => /\ join.outcome = "Ok" /\ join.status = 200
                     /\ join.event = i.eventId
                     /\ join.token = i.token
                     /\ join.deliveryMethod = i.deliveryMethod

C14_Witness ==
    /\ join.outcome = "Inactive"
    /\ \E i \in invitations : /\ i.token = join.asked
                                /\ ~i.isActive
                                /\ events[i.eventId].endsAt < now

\* C15: the answer for an expired token and the answer for an inactive
\* token carry the same status and the same message.
C15_GenericJoinFailure ==
    join.outcome \in {"Inactive", "Expired"}
    => \A t \in Tokens :
          ResolveJoin(t) \in {"Inactive", "Expired"}
          => /\ JoinResponse(t).status = join.status
             /\ JoinResponse(t).message = join.message

\* C17: a listing request whose status filter is neither absent nor one of
\* SENT, FAILED, DISABLED, RATE_LIMITED is not answered with success, and
\* in particular not with all the records of the event.
C17_UnknownFilterRejected ==
    (audit.status # 0 /\ audit.filter \notin EmailStatuses \cup {"undefined"})
    => /\ audit.status # 200
       /\ audit.rows # {l \in logs : l.eventId = audit.eventId}

\* The body the placeholder helper of a rendered message was given.
GivenBody == IF mail.template = <<>> THEN DEFAULT_BODY ELSE mail.template

CountLink(body) == Cardinality({i \in 1..Len(body) : body[i] = Text(Link)})

\* C18: the link line is appended to the body of a message exactly when
\* the body holds neither the placeholder {{inviteLink}} nor the link; the
\* rendered message of a body that held neither holds the link once, and a
\* body that held the link is left as it was.
C18_LinkAppendedIffMissing ==
    mail.pc \in {"rendered", "linked"}
    => LET had == HasPlaceholder(GivenBody) \/ HasLink(GivenBody, Link)
       IN /\ (mail.bodyTemplate # GivenBody) <=> ~had
          /\ ~had => CountLink(mail.body) = 1
          /\ HasLink(GivenBody, Link) => mail.bodyTemplate = GivenBody

\* C19: in a rendered message every placeholder stands replaced by the
\* value the context holds for its key, and by the empty string when the
\* context holds no such key or holds null or undefined for it; the texts
\* around the placeholders are unchanged.
C19_RenderReplacesOrEmpties ==
    mail.pc \in {"rendered", "linked"}
    => LET context == Context(mail.description)
       IN /\ Len(mail.body) = Len(mail.bodyTemplate)
          /\ \A i \in 1..Len(mail.bodyTemplate) :
               LET piece == mail.bodyTemplate[i]
               IN  mail.body[i] =
                     IF piece.t = "text" THEN piece
                     ELSE IF piece.v \in DOMAIN context
                             /\ context[piece.v] \notin {Null, Undefined}
                     THEN Text(context[piece.v])
                     ELSE Text("")

\* C20: after every step no two invitations in the store carry the same
\* token, and an invitation that is in the store before and after the step
\* (a dispatch, a toggle, a join, a deletion, a tick) carries the same token.
C20_TokenUniqueImmutable ==
    [][/\ \A i, j \in invitations' : i.token = j.token => i.id = j.id
       /\ \A i \in invitations : \A j \in invitations' :
             i.id = j.id => j.token = i.token]_vars

C20_Witness ==
    /\ \E p \in Procs :
          /\ Done(p) /\ req[p].result = "InternalError"
          /\ req[p].eventId \in DOMAIN events
          /\ \E i \in invitations : i.token = req[p].token /\ ~i.isActive
    /\ nextInv = 2

\* The window has no ceiling: no settings row, a null column, or 0.
HourCeilingOff == settings = NoSettings \/ settings.perHour \in {NoCeil, 0}
DayCeilingOff == settings = NoSettings \/ settings.perDay \in {NoCeil, 0}

C21_SecondCheckRollsBack ==
    [][\A p \in Procs :
         /\ (/\ req[p].pc = "config" /\ req'[p].pc # "config"
             /\ isEmailSendingEnabled(settings))
            => /\ req'[p].checks = req[p].checks + 1
               /\ ~checkRateLimit(req[p].adminId, settings).allowed
                  => /\ req'[p].pc = "log"
                     /\ req'[p].pending = "RATE_LIMITED"
                     /\ req'[p].sends = 0
         /\ (/\ req[p].pc = "log" /\ req'[p].pc # "log"
             /\ req[p].pending = "RATE_LIMITED")
            => /\ req'[p].result = "RateLimited"
               /\ \A i \in invitations' : i.id # req[p].invId]_vars

C23_HourlyBeforeDaily ==
    [][\A p \in Procs :
         (req[p].pc = "precheck" /\ req'[p].pc # "precheck")
         => LET a == req[p].adminId
                limits == getRateLimitConfig(settings)
                hourDeny == /\ limits.perHour > 0
                            /\ countEmails(a, now - HourMs) >= limits.perHour
                dayDeny == /\ limits.perDay > 0
                           /\ countEmails(a, now - DayMs) >= limits.perDay
            IN /\ hourDeny
                  <=> /\ req'[p].pc = "gatelog"
                      /\ req'[p].message = <<"hour", limits.perHour>>
               /\ hourDeny => checkRateLimit(a, settings).queries = 1
               /\ (~hourDeny /\ dayDeny)
                  <=> /\ req'[p].pc = "gatelog"
                      /\ req'[p].message = <<"day", limits.perDay>>
               /\ (~hourDeny /\ ~dayDeny) <=> req'[p].pc = "create"]_vars

C23_Witness ==
    \E p \in Procs :
        /\ req[p].pc = "gatelog"
        /\ req[p].message = <<"hour", getRateLimitConfig(settings).perHour>>
        /\ getRateLimitConfig(settings).perDay > 0
        /\ countEmails(req[p].adminId, now - DayMs)
              >= getRateLimitConfig(settings).perDay

\* C24: a dispatch hands at most one message to the transport; after a
\* failed send it only writes its record and answers, and it sends nothing
\* more.
C24_NoRetry ==
    \A p \in Procs :
        /\ req[p].sends <= 1
        /\ req[p].pending \in {"SENT", "FAILED"}
           => req[p].pc \in {"log", "done"} /\ req[p].sends = 1
        /\ req[p].pc = "send" => req[p].sends = 0

C24_Witness ==
    /\ \E p \in Procs : /\ Done(p) /\ req[p].pending = "SENT"
                          /\ req[p].sends = 1
    /\ \E l \in logs : l.status = "FAILED"

\* C25: a dispatch that has reached the transport send eventually answers
\* with outcome SENT or FAILED, whether or not the transport answers.
C25_SendTerminates ==
    \A p \in Procs :
        (req[p].pc = "send")
        ~> (req[p].pc = "done" /\ req[p].pending \in {"SENT", "FAILED"})

\* C26: the step that answers a join request, whatever the token and the
\* outcome, changes no invitation, no event, no audit record and no
\* setting.
C26_JoinReadsOnly ==
    [][(join.outcome = "none" /\ join'.outcome # "none")
       => /\ invitations' = invitations
          /\ events' = events
          /\ logs' = logs
          /\ settings' = settings]_vars

C26_Witness ==
    /\ join.outcome = "Ok"
    /\ \E i \in invitations : /\ i.token = join.asked
                                /\ i.usedAt = NoDate /\ i.isActive
    /\ \E i \in invitations : ~i.isActive
    /\ logs # {}

C28_QuotaPerOperator ==
    [][\A a \in Admins :
         (/\ logs' # logs
          /\ {l \in logs' : l.adminId = a} = {l \in logs : l.adminId = a}
          /\ now' = now
          /\ settings' = settings)
         => checkRateLimit(a, settings)' = checkRateLimit(a, settings)]_vars

C28_Witness ==
    \E a, b \in Admins :
        /\ a # b
        /\ settings.perHour > 0
        /\ countEmails(b, now - HourMs) >= settings.perHour
        /\ countEmails(a, now - DayMs) = 0
        /\ \E p \in Procs : /\ req[p].adminId = a /\ req[p].pc = "create"
                              /\ req[p].checks = 1
        /\ \E p \in Procs : /\ req[p].adminId = b /\ Done(p)
                              /\ req[p].wrote # {}

\* C29: whatever the order of the steps of a dispatch and the deletion of
\* its event, no invitation and no audit record in the store references an
\* event that is gone, and no audit record references an invitation that
\* is gone.
C29_NothingReferencesDeleted ==
    /\ \A i \in invitations : i.eventId \in DOMAIN events
    /\ \A l \in logs :
         /\ l.eventId # Null => l.eventId \in DOMAIN events
         /\ l.invitationId # NoInv
            => \E i \in invitations : i.id = l.invitationId

C29_Witness ==
    \E p \in Procs :
        /\ Done(p)
        /\ req[p].method = "EMAIL"
        /\ req[p].eventId \in Events \ DOMAIN events
        /\ req[p].invId # NoInv
        /\ req[p].sends = 1
        /\ req[p].pending \in {"SENT", "FAILED"}
        /\ req[p].wrote = {}

\* C30: a settings update whose value for a ceiling is 0, negative or not
\* a number leaves that stored ceiling as it was, and no step changes a
\* stored ceiling to a value that is not greater than 0.
CeilingRejected(x) == x.type # "number" \/ x.value <= 0

C30_InvalidCeilingIgnored ==
    [][settings' # settings
       => /\ \A s \in SmtpInputs, h \in CeilingInputs, d \in CeilingInputs :
               UpdateSettings(s, h, d)
               => /\ CeilingRejected(h) => settings'.perHour = settings.perHour
                  /\ CeilingRejected(d) => settings'.perDay = settings.perDay
          /\ settings'.perHour # settings.perHour => settings'.perHour > 0
          /\ settings'.perDay # settings.perDay => settings'.perDay > 0]_vars

C30_Witness ==
    /\ settings = [smtp |-> TRUE, perHour |-> 0, perDay |-> MaxCeil]
    /\ \E p \in Procs : Done(p) /\ req[p].result = "Created"

====
